---- MODULE Spec2Model ----
(***************************************************************************)
(* Model of junit-to-ctrf's conversion core (src/src/convert.ts):          *)
(* sanitizeString, convertOutputToArray, convertRetryAttempts,             *)
(* processTestWithRetries, convertToCTRFTest and createCTRFReport.         *)
(*                                                                         *)
(* Strings are sequences of UTF-16 code units (integers).  The JavaScript  *)
(* value undefined of a string-typed field is the one-element sequence     *)
(* <<-1>>, which no string can equal.  Optional object keys (retries,      *)
(* retryAttempts, flaky, stdout, stderr, environment, summary.flaky) are   *)
(* keys that are in the DOMAIN of the record or not.                       *)
(***************************************************************************)
EXTENDS Integers, Sequences, FiniteSets, TLC

VARIABLES
    call,        \* which exported function the caller invokes
    pc,          \* "start" before the call, "done" after it returned or
                 \* settled, else the name of the call it awaits
    str,         \* argument of sanitizeString
    sanitized,   \* return value of sanitizeString
    testCases,   \* JUnitTestCase[]: argument of createCTRFReport, or what the
                 \* reader yielded to convertJUnitToCTRFReport
    toolName,    \* argument of createCTRFReport
    envProps,    \* argument of createCTRFReport
    useSuiteName,\* argument of createCTRFReport
    report,      \* return value of createCTRFReport
    outputPath,  \* options.outputPath of convertJUnitToCTRFReport
    envStrings,  \* options.envProps of convertJUnitToCTRFReport: string[]
    log,         \* options.log of convertJUnitToCTRFReport
    console,     \* what the call has written to the console so far
    dirs,        \* the directories of the file system
    files,       \* the files of the file system: path -> content
    outcome,     \* the promise convertJUnitToCTRFReport returned
    threw,       \* on which values JSON.stringify threw during the call
    fsCalls      \* the calls of fs functions the call has made, in order

\* the state that only convertJUnitToCTRFReport reads and writes
convertVars ==
    <<outputPath, envStrings, log, console, dirs, files, outcome, threw,
      fsCalls>>

vars == <<call, pc, str, sanitized, testCases, toolName, envProps,
          useSuiteName, report, outputPath, envStrings, log, console, dirs,
          files, outcome, threw, fsCalls>>

-----------------------------------------------------------------------------
(* Bounds of the model *)

MaxStrLen == 3
MaxRetries == 2
MaxTests == 2

-----------------------------------------------------------------------------
(* JavaScript values *)

undefined == <<-1>>

\* a JavaScript number: a finite integer, or NaN
Num(n) == [nan |-> FALSE, val |-> n]
NaN == [nan |-> TRUE, val |-> 0]
\* the value undefined in a number-typed field
undefinedNum == [nan |-> TRUE, val |-> -1]

\* obj.key for a key that may be missing
Has(obj, key) == key \in DOMAIN obj

-----------------------------------------------------------------------------
(* Code units *)

\* the code units the source names
LF == 10
VT == 11
FF == 12
SPACE == 32
DEL == 127
BOM == 65279
REPLACEMENT == 65533
SurrogateLo == 55296
SurrogateHi == 57343

\* /\uFEFF/g
IsBOM(c) == c = BOM

IsControl_allC0(c) == (c >= 0 /\ c <= 31) \/ c = DEL

\* /[\u0000-\u0008\u000B\u000C\u000E-\u001F\u007F]/
IsControl(c) ==
    \/ c >= 0 /\ c <= 8
    \/ c = VT
    \/ c = FF
    \/ c >= 14 /\ c <= 31
    \/ c = DEL

\* the pattern with the u flag: a high half followed by a low half is one
\* character outside the class, only isolated halves match
IsSurrogate_isolatedOnly(s, i) ==
    /\ s[i] >= SurrogateLo /\ s[i] <= SurrogateHi
    /\ ~(s[i] <= 56319 /\ i < Len(s) /\ s[i + 1] >= 56320 /\ s[i + 1] <= SurrogateHi)
    /\ ~(s[i] >= 56320 /\ i > 1 /\ s[i - 1] >= SurrogateLo /\ s[i - 1] <= 56319)

\* /[\uD800-\uDFFF]/g : the pattern has no u flag, so it is matched against
\* each code unit on its own, whatever its neighbours are
IsSurrogate(s, i) == s[i] >= SurrogateLo /\ s[i] <= SurrogateHi

\* the class \s of a JavaScript regular expression, also what trim() strips
IsWhiteSpace(c) ==
    \/ c = 9 \/ c = LF \/ c = VT \/ c = FF \/ c = 13 \/ c = SPACE
    \/ c = 160 \/ c = 5760
    \/ c >= 8192 /\ c <= 8202
    \/ c = 8232 \/ c = 8233 \/ c = 8239 \/ c = 8287 \/ c = 12288
    \/ c = BOM

\* the pattern without its g flag
RemoveBOM_firstOnly(s) ==
    IF \A i \in 1..Len(s) : ~IsBOM(s[i]) THEN s
    ELSE [i \in 1..(Len(s) - 1) |->
            IF \E j \in 1..i : IsBOM(s[j]) THEN s[i + 1] ELSE s[i]]

RemoveBOM(s) == SelectSeq(s, LAMBDA c : ~IsBOM(c))

ReplaceControl(s) == [i \in 1..Len(s) |-> IF IsControl(s[i]) THEN SPACE ELSE s[i]]

ReplaceSurrogates(s) ==
    [i \in 1..Len(s) |-> IF IsSurrogate(s, i) THEN REPLACEMENT ELSE s[i]]

\* String.prototype.normalize('NFC') on the code units of the model's
\* alphabet: e + U+0301 composes to U+00E9, the singleton U+212B maps to
\* U+00C5, every other unit of the alphabet is its own normal form
RECURSIVE NormalizeNFC(_)
NormalizeNFC(s) ==
    IF Len(s) = 0 THEN <<>>
    ELSE IF Len(s) >= 2 /\ s[1] = 101 /\ s[2] = 769
    THEN <<233>> \o NormalizeNFC(SubSeq(s, 3, Len(s)))
    ELSE IF s[1] = 8491
    THEN <<197>> \o NormalizeNFC(Tail(s))
    ELSE <<s[1]>> \o NormalizeNFC(Tail(s))

\* /^\s*$/.test(s)
IsBlank(s) == \A i \in 1..Len(s) : IsWhiteSpace(s[i])

UnlessBlank_emptyOnly(s) == IF s = <<>> THEN undefined ELSE s

\* return of sanitizeString for the transformed string s
UnlessBlank(s) == IF IsBlank(s) THEN undefined ELSE s

sanitizeString(s) ==
    IF s = undefined THEN undefined
    ELSE UnlessBlank(NormalizeNFC(ReplaceSurrogates(ReplaceControl(RemoveBOM(s)))))

-----------------------------------------------------------------------------
(* String primitives of the runtime *)

\* a string used as a condition: undefined and '' are falsy
Truthy(s) == s # undefined /\ s # <<>>

RECURSIVE TrimStart(_)
TrimStart(s) ==
    IF Len(s) > 0 /\ IsWhiteSpace(s[1]) THEN TrimStart(Tail(s)) ELSE s

RECURSIVE TrimEnd(_)
TrimEnd(s) ==
    IF Len(s) > 0 /\ IsWhiteSpace(s[Len(s)])
    THEN TrimEnd(SubSeq(s, 1, Len(s) - 1)) ELSE s

\* String.prototype.trim
Trim(s) == TrimEnd(TrimStart(s))

\* String.prototype.split('\n'): always at least one piece
RECURSIVE SplitLines(_)
SplitLines(s) ==
    IF \A i \in 1..Len(s) : s[i] # LF THEN <<s>>
    ELSE LET k == CHOOSE i \in 1..Len(s) :
                    s[i] = LF /\ \A j \in 1..(i-1) : s[j] # LF
         IN  <<SubSeq(s, 1, k - 1)>> \o SplitLines(SubSeq(s, k + 1, Len(s)))

\* the value undefined of an array-typed result
undefinedArr == <<undefined>>

\* lines.map(line => sanitizeString(line.trim()))
SanitizeLines(lines) ==
    [i \in 1..Len(lines) |-> sanitizeString(Trim(lines[i]))]

convertOutputToArray(output) ==
    IF ~Truthy(output) \/ Trim(output) = <<>> THEN undefinedArr
    ELSE SelectSeq(SanitizeLines(SplitLines(output)),
                   LAMBDA line : Truthy(line) /\ Len(line) > 0)

-----------------------------------------------------------------------------
(* Number parsing of the runtime *)

IsDigit(c) == c >= 48 /\ c <= 57

RECURSIVE DigitsLen(_)
\* length of the longest prefix of s made of decimal digits
DigitsLen(s) ==
    IF Len(s) > 0 /\ IsDigit(s[1]) THEN 1 + DigitsLen(Tail(s)) ELSE 0

RECURSIVE DigitsValue(_)
\* value of a string of decimal digits
DigitsValue(s) ==
    IF Len(s) = 0 THEN 0
    ELSE 10 * DigitsValue(SubSeq(s, 1, Len(s) - 1)) + (s[Len(s)] - 48)

\* the first four digits of a fraction, in units of 1/10000: the model keeps
\* parseFloat's result in these units (time fields have at most four
\* fraction digits)
FractionValue(d) ==
    LET kept == SubSeq(d, 1, IF Len(d) < 4 THEN Len(d) ELSE 4)
        pad == [i \in 1..(4 - Len(kept)) |-> 48]
    IN  DigitsValue(kept \o pad)

\* parseFloat(s) for decimal literals [ws][sign]digits[.digits], in units of
\* 1/10000; NaN when no digit can be read
parseFloat(s) ==
    LET t == TrimStart(s)
        neg == Len(t) > 0 /\ t[1] = 45
        signed == Len(t) > 0 /\ (t[1] = 45 \/ t[1] = 43)
        u == IF signed THEN Tail(t) ELSE t
        n == DigitsLen(u)
        rest == SubSeq(u, n + 1, Len(u))
        hasDot == Len(rest) > 0 /\ rest[1] = 46
        f == IF hasDot THEN SubSeq(rest, 2, 1 + DigitsLen(Tail(rest))) ELSE <<>>
        mag == 10000 * DigitsValue(SubSeq(u, 1, n)) + FractionValue(f)
    IN  IF n = 0 /\ Len(f) = 0 THEN NaN
        ELSE Num(IF neg THEN -mag ELSE mag)

\* Math.round(x * 1000) for x in units of 1/10000: halves round up
RoundTimes1000(x) ==
    IF x.nan THEN NaN ELSE Num((x.val + 5) \div 10)

\* parseInt(s): [ws][sign]digits, NaN when no digit can be read
parseInt(s) ==
    LET t == TrimStart(s)
        neg == Len(t) > 0 /\ t[1] = 45
        signed == Len(t) > 0 /\ (t[1] = 45 \/ t[1] = 43)
        u == IF signed THEN Tail(t) ELSE t
        n == DigitsLen(u)
        mag == DigitsValue(SubSeq(u, 1, n))
    IN  IF n = 0 THEN NaN ELSE Num(IF neg THEN -mag ELSE mag)

-----------------------------------------------------------------------------
(* Retry reconciliation *)

\* optional keys of an object under construction
Attach(obj, cond, key, value) == IF cond THEN (key :> value) @@ obj ELSE obj

\* arrays are always truthy, the value undefined is not
TruthyArr(a) == a # undefinedArr

\* one RetryAttempt: stdout and stderr are keys only when truthy
RetryAttemptOf(number, message, trace, stdout, stderr) ==
    Attach(Attach([attempt |-> number, status |-> "failed",
                   message |-> message, trace |-> trace],
                  TruthyArr(stdout), "stdout", stdout),
           TruthyArr(stderr), "stderr", stderr)

convertRetryAttempts_offByOne(retryAttempts, startAttempt) ==
    [index \in 1..Len(retryAttempts) |->
        RetryAttemptOf(startAttempt + index,
                       sanitizeString(retryAttempts[index].message),
                       sanitizeString(retryAttempts[index].trace),
                       convertOutputToArray(retryAttempts[index].systemOut),
                       convertOutputToArray(retryAttempts[index].systemErr))]

\* index is 0-based in the source and 1-based here
convertRetryAttempts(retryAttempts, startAttempt) ==
    [index \in 1..Len(retryAttempts) |->
        RetryAttemptOf(startAttempt + (index - 1),
                       sanitizeString(retryAttempts[index].message),
                       sanitizeString(retryAttempts[index].trace),
                       convertOutputToArray(retryAttempts[index].systemOut),
                       convertOutputToArray(retryAttempts[index].systemErr))]

\* testCase.list && testCase.list.length > 0
NonEmptyList(testCase, key) == Has(testCase, key) /\ Len(testCase[key]) > 0

\* the list, or nothing when the guard of its if statement is false
ListOf(testCase, key) ==
    IF NonEmptyList(testCase, key) THEN testCase[key] ELSE <<>>

hasFlaky_failuresOnly(testCase) == NonEmptyList(testCase, "flakyFailures")

hasFlaky(testCase) ==
    \/ NonEmptyList(testCase, "flakyFailures")
    \/ NonEmptyList(testCase, "flakyErrors")

hasRerun(testCase) ==
    \/ NonEmptyList(testCase, "rerunFailures")
    \/ NonEmptyList(testCase, "rerunErrors")

rerunStart_alwaysReset(testCase, attemptNumber) == 2

rerunStart_neverReset(testCase, attemptNumber) == attemptNumber

\* attemptNumber after the statement if (!hasFlaky) attemptNumber = 2
rerunStart(testCase, attemptNumber) ==
    IF ~hasFlaky(testCase) THEN 2 ELSE attemptNumber

finalStatus_skippedFirst(testCase) ==
    IF hasFlaky(testCase) THEN "passed"
    ELSE IF hasRerun(testCase) THEN "failed"
    ELSE IF testCase.skipped THEN "skipped"
    ELSE IF testCase.hasFailure \/ testCase.hasError THEN "failed"
    ELSE "passed"

\* reruns decide before flaky records do
finalStatus_rerunFirst(testCase) ==
    IF hasRerun(testCase) THEN "failed"
    ELSE IF hasFlaky(testCase) THEN "passed"
    ELSE IF testCase.hasFailure \/ testCase.hasError THEN "failed"
    ELSE IF testCase.skipped THEN "skipped"
    ELSE "passed"

finalStatus(testCase) ==
    IF hasFlaky(testCase) THEN "passed"
    ELSE IF hasRerun(testCase)
    THEN IF testCase.hasError THEN "failed"
         ELSE IF testCase.hasFailure THEN "failed"
         ELSE "failed"
    ELSE IF testCase.hasFailure \/ testCase.hasError THEN "failed"
         ELSE IF testCase.skipped THEN "skipped"
         ELSE "passed"

\* a count read off the attempt counter instead of the list
TestInfo_fromCounter(testCase, retryAttempts) ==
    [retryAttempts |-> retryAttempts,
     retryCount |-> IF Len(retryAttempts) = 0 THEN 0
                    ELSE retryAttempts[Len(retryAttempts)].attempt,
     finalStatus |-> finalStatus(testCase),
     isFlaky |-> hasFlaky(testCase)]

\* the returned object for the accumulated retryAttempts
TestInfo(testCase, retryAttempts) ==
    [retryAttempts |-> retryAttempts,
     retryCount |-> Len(retryAttempts),
     finalStatus |-> finalStatus(testCase),
     isFlaky |-> hasFlaky(testCase)]

\* attemptNumber after the two flaky lists were pushed
AfterFlaky(testCase) ==
    1 + Len(ListOf(testCase, "flakyFailures")) + Len(ListOf(testCase, "flakyErrors"))

processTestWithRetries(testCase) ==
    TestInfo(testCase,
        convertRetryAttempts(ListOf(testCase, "flakyFailures"), 1)
        \o convertRetryAttempts(ListOf(testCase, "flakyErrors"),
                                1 + Len(ListOf(testCase, "flakyFailures")))
        \o convertRetryAttempts(ListOf(testCase, "rerunFailures"),
                                rerunStart(testCase, AfterFlaky(testCase)))
        \o convertRetryAttempts(ListOf(testCase, "rerunErrors"),
                                rerunStart(testCase, AfterFlaky(testCase))
                                    + Len(ListOf(testCase, "rerunFailures"))))

-----------------------------------------------------------------------------
(* Test conversion *)

\* a || b on strings
Or(a, b) == IF Truthy(a) THEN a ELSE b

\* 'undefined', ': ', 'Unnamed Test', 'junit-to-ctrf' as code units
TextUndefined == <<117, 110, 100, 101, 102, 105, 110, 101, 100>>
TextColonSpace == <<58, 32>>
TextUnnamedTest == <<85, 110, 110, 97, 109, 101, 100, 32, 84, 101, 115, 116>>
TextJunitToCtrf == <<106, 117, 110, 105, 116, 45, 116, 111, 45, 99, 116, 114, 102>>
TextZero == <<48>>

\* ${value} in a template literal
Interpolate(s) == IF s = undefined THEN TextUndefined ELSE s

\* if (testInfo.retryCount > 0) { test.retries = ...; test.retryAttempts = ... }
attachRetries_always(test, testInfo) ==
    ("retries" :> testInfo.retryCount)
        @@ ("retryAttempts" :> testInfo.retryAttempts) @@ test

attachRetries(test, testInfo) ==
    IF testInfo.retryCount > 0
    THEN ("retries" :> testInfo.retryCount)
            @@ ("retryAttempts" :> testInfo.retryAttempts) @@ test
    ELSE test

\* if (testInfo.isFlaky) { test.flaky = true }
attachFlaky_always(test, testInfo) ==
    ("flaky" :> testInfo.isFlaky) @@ test

attachFlaky(test, testInfo) == Attach(test, testInfo.isFlaky, "flaky", TRUE)

TestName_noSeparator(testCase, withSuiteName) ==
    IF withSuiteName
    THEN Interpolate(sanitizeString(testCase.suite))
            \o Interpolate(sanitizeString(testCase.name))
    ELSE sanitizeString(testCase.name)

\* const testName = useSuiteName ? `${suite}: ${name}` : name
TestName(testCase, withSuiteName) ==
    IF withSuiteName
    THEN Interpolate(sanitizeString(testCase.suite))
            \o TextColonSpace
            \o Interpolate(sanitizeString(testCase.name))
    ELSE sanitizeString(testCase.name)

TestOf_errorFirst(testCase, withSuiteName, testInfo) ==
    [name |-> Or(TestName(testCase, withSuiteName), TextUnnamedTest),
     status |-> testInfo.finalStatus,
     duration |-> RoundTimes1000(parseFloat(Or(testCase.time, TextZero))),
     filePath |-> testCase.file,
     line |-> IF Truthy(testCase.lineno) THEN parseInt(testCase.lineno)
              ELSE undefinedNum,
     message |-> Or(sanitizeString(Or(testCase.errorMessage,
                                      testCase.failureMessage)),
                    undefined),
     trace |-> Or(sanitizeString(Or(testCase.errorTrace,
                                    testCase.failureTrace)),
                  undefined),
     suite |-> sanitizeString(testCase.suite)]

\* const test: Test = { name, status, duration, ... }
TestOf(testCase, withSuiteName, testInfo) ==
    [name |-> Or(TestName(testCase, withSuiteName), TextUnnamedTest),
     status |-> testInfo.finalStatus,
     duration |-> RoundTimes1000(parseFloat(Or(testCase.time, TextZero))),
     filePath |-> testCase.file,
     line |-> IF Truthy(testCase.lineno) THEN parseInt(testCase.lineno)
              ELSE undefinedNum,
     message |-> Or(sanitizeString(Or(testCase.failureMessage,
                                      testCase.errorMessage)),
                    undefined),
     trace |-> Or(sanitizeString(Or(testCase.failureTrace,
                                    testCase.errorTrace)),
                  undefined),
     suite |-> sanitizeString(testCase.suite)]

\* the optional keys retries, retryAttempts, flaky, stdout, stderr
Finish(test, testInfo, stdout, stderr) ==
    Attach(Attach(attachFlaky(attachRetries(test, testInfo), testInfo),
                  TruthyArr(stdout), "stdout", stdout),
           TruthyArr(stderr), "stderr", stderr)

\* the body of convertToCTRFTest once testInfo is known
WithTestInfo(testCase, withSuiteName, testInfo) ==
    Finish(TestOf(testCase, withSuiteName, testInfo), testInfo,
           convertOutputToArray(testCase.systemOut),
           convertOutputToArray(testCase.systemErr))

convertToCTRFTest(testCase, withSuiteName) ==
    WithTestInfo(testCase, withSuiteName, processTestWithRetries(testCase))

-----------------------------------------------------------------------------
(* Report assembly *)

\* an optional argument is <<>> when omitted and <<value>> when supplied
Omitted == <<>>
Supplied(v) == <<v>>

\* !!useSuiteName
ToBoolean(opt) == opt # Omitted /\ opt[1]

\* ctrfTests.filter(test => test.status === status).length
countStatus(ctrfTests, status) ==
    Cardinality({i \in 1..Len(ctrfTests) : ctrfTests[i].status = status})

\* ctrfTests.filter(test => test.flaky === true).length
countFlaky_retried(ctrfTests) ==
    Cardinality({i \in 1..Len(ctrfTests) : Has(ctrfTests[i], "retries")})

countFlaky(ctrfTests) ==
    Cardinality({i \in 1..Len(ctrfTests) :
                    Has(ctrfTests[i], "flaky") /\ ctrfTests[i].flaky = TRUE})

SummaryOf_noSkipped(ctrfTests, flaky) ==
    Attach([tests |-> Len(ctrfTests),
            passed |-> countStatus(ctrfTests, "passed"),
            failed |-> countStatus(ctrfTests, "failed"),
            skipped |-> 0,
            pending |-> countStatus(ctrfTests, "pending"),
            other |-> countStatus(ctrfTests, "other"),
            start |-> 0,
            stop |-> 0],
           flaky > 0, "flaky", flaky)

SummaryOf_flakyAlways(ctrfTests, flaky) ==
    Attach([tests |-> Len(ctrfTests),
            passed |-> countStatus(ctrfTests, "passed"),
            failed |-> countStatus(ctrfTests, "failed"),
            skipped |-> countStatus(ctrfTests, "skipped"),
            pending |-> countStatus(ctrfTests, "pending"),
            other |-> countStatus(ctrfTests, "other"),
            start |-> 0,
            stop |-> 0],
           TRUE, "flaky", flaky)

\* { tests, passed, ..., start: 0, stop: 0, ...(flaky > 0 && { flaky }) }
SummaryOf(ctrfTests, flaky) ==
    Attach([tests |-> Len(ctrfTests),
            passed |-> countStatus(ctrfTests, "passed"),
            failed |-> countStatus(ctrfTests, "failed"),
            skipped |-> countStatus(ctrfTests, "skipped"),
            pending |-> countStatus(ctrfTests, "pending"),
            other |-> countStatus(ctrfTests, "other"),
            start |-> 0,
            stop |-> 0],
           flaky > 0, "flaky", flaky)

buildSummary_noSkipped(ctrfTests) ==
    SummaryOf_noSkipped(ctrfTests, countFlaky(ctrfTests))

buildSummary_flakyAlways(ctrfTests) ==
    SummaryOf_flakyAlways(ctrfTests, countFlaky(ctrfTests))

\* const summary = { tests, passed, ..., ...(flaky > 0 && { flaky }) }
buildSummary(ctrfTests) ==
    SummaryOf(ctrfTests, countFlaky(ctrfTests))

ReportOf_envWhenSupplied(ctrfTests, tool, env, now) ==
    [reportFormat |-> "CTRF",
     specVersion |-> "0.0.0",
     generatedBy |-> "junit-to-ctrf",
     timestamp |-> now,
     results |-> Attach([tool |-> [name |-> Or(tool, TextJunitToCtrf)],
                         summary |-> buildSummary(ctrfTests),
                         tests |-> ctrfTests],
                        env # Omitted,
                        "environment", env[1])]

\* now is the instant new Date() reads; the timestamp field holds it
ReportOf(ctrfTests, tool, env, now) ==
    [reportFormat |-> "CTRF",
     specVersion |-> "0.0.0",
     generatedBy |-> "junit-to-ctrf",
     timestamp |-> now,
     results |-> Attach([tool |-> [name |-> Or(tool, TextJunitToCtrf)],
                         summary |-> buildSummary(ctrfTests),
                         tests |-> ctrfTests],
                        env # Omitted /\ DOMAIN env[1] # {},
                        "environment", env[1])]

\* a conversion that leaves out the test cases without a name
createCTRFReport_skipsNameless(cases, tool, env, withSuiteName, now) ==
    ReportOf([i \in 1..Len(SelectSeq(cases, LAMBDA c : c.name # undefined)) |->
                convertToCTRFTest(
                    SelectSeq(cases, LAMBDA c : c.name # undefined)[i],
                    ToBoolean(withSuiteName))],
             tool, env, now)

\* a conversion that emits the tests in reverse order
createCTRFReport_reversed(cases, tool, env, withSuiteName, now) ==
    ReportOf([i \in 1..Len(cases) |->
                convertToCTRFTest(cases[Len(cases) + 1 - i],
                                  ToBoolean(withSuiteName))],
             tool, env, now)

createCTRFReport(cases, tool, env, withSuiteName, now) ==
    ReportOf([i \in 1..Len(cases) |->
                convertToCTRFTest(cases[i], ToBoolean(withSuiteName))],
             tool, env, now)

-----------------------------------------------------------------------------
(* Conversion of report files *)

\* String.prototype.split(sep) for a separator of one code unit
RECURSIVE split(_, _)
split(s, sep) ==
    IF \A i \in 1..Len(s) : s[i] # sep THEN <<s>>
    ELSE LET k == CHOOSE i \in 1..Len(s) :
                    s[i] = sep /\ \A j \in 1..(i-1) : s[j] # sep
         IN  <<SubSeq(s, 1, k - 1)>> \o split(SubSeq(s, k + 1, Len(s)), sep)

\* the entry Object.fromEntries reads from an array: [0] is the key, [1]
\* the value, anything further is ignored
EntryOf(parts) ==
    parts[1] :> (IF Len(parts) >= 2 THEN parts[2] ELSE undefined)

\* Object.fromEntries(entries): a later entry replaces an earlier one
RECURSIVE fromEntries(_)
fromEntries(entries) ==
    IF entries = <<>> THEN <<>>
    ELSE EntryOf(entries[Len(entries)])
            @@ fromEntries(SubSeq(entries, 1, Len(entries) - 1))

\* envProps ? Object.fromEntries(envProps.map(prop => prop.split('='))) : {}
envPropsObj(props) ==
    IF props = Omitted THEN <<>>
    ELSE fromEntries([i \in 1..Len(props[1]) |-> split(props[1][i], 61)])

\* testCases.length === 0
NoTestCases_never(cases) == FALSE

NoTestCases(cases) == Len(cases) = 0

\* process.cwd()
Cwd == <<47, 119>>

\* path.resolve(p) for a non-empty p without '.' and '..' segments
resolve(p) == IF p[1] = 47 THEN p ELSE Cwd \o <<47>> \o p

\* path.dirname(p) for an absolute path p
dirname(p) ==
    LET k == CHOOSE i \in 1..Len(p) :
                p[i] = 47 /\ \A j \in (i+1)..Len(p) : p[j] # 47
    IN  IF k = 1 THEN <<47>> ELSE SubSeq(p, 1, k - 1)

\* the directories after fs.ensureDir(dir) succeeded: dir and its parents
ensureDir(existing, dir) ==
    existing \cup {SubSeq(dir, 1, k) :
                    k \in {i \in 1..Len(dir) : i = Len(dir) \/ dir[i + 1] = 47}}

\* JSON.stringify of a number: NaN is written as null
JsonNumber(x) == [null |-> x.nan, val |-> IF x.nan THEN 0 ELSE x.val]

\* JSON.stringify of a RetryAttempt: keys whose value is undefined are left out
JsonAttempt(a) ==
    [k \in {key \in DOMAIN a :
                ~(key \in {"message", "trace"} /\ a[key] = undefined)} |-> a[k]]

\* JSON.stringify of a Test
JsonTest(t) ==
    [k \in {key \in DOMAIN t :
                /\ ~(/\ key \in {"name", "filePath", "message", "trace", "suite"}
                     /\ t[key] = undefined)
                /\ ~(key = "line" /\ t[key] = undefinedNum)} |->
        IF k \in {"duration", "line"} THEN JsonNumber(t[k])
        ELSE IF k = "retryAttempts"
             THEN [i \in 1..Len(t[k]) |-> JsonAttempt(t[k][i])]
             ELSE t[k]]

\* JSON.stringify of the environment mapping
JsonEnvironment(env) ==
    [k \in {key \in DOMAIN env : env[key] # undefined} |-> env[k]]

\* JSON.stringify of report.results
JsonResults(results) ==
    Attach([tool |-> results.tool,
            summary |-> results.summary,
            tests |-> [i \in 1..Len(results.tests) |->
                            JsonTest(results.tests[i])]],
           Has(results, "environment"),
           "environment", JsonEnvironment(results.environment))

\* JSON.stringify(report, null, 2): the JSON text, as the value it denotes
\* and its indentation
serializeCTRFReport(r) ==
    [indent |-> 2, json |-> [r EXCEPT !.results = JsonResults(r.results)]]

\* fs.ensureDir(outputDir)
EnsureDirCall(dir) == [fn |-> "ensureDir", path |-> dir]

WriteFileCall_unserialized(path, r) ==
    [fn |-> "writeFile", path |-> path, data |-> r]

\* fs.writeFile(finalOutputPath, serializeCTRFReport(ctrfReport), 'utf-8')
WriteFileCall(path, r) ==
    [fn |-> "writeFile", path |-> path, data |-> serializeCTRFReport(r)]

\* the promise of an async function
Pending == [state |-> "pending"]
Fulfilled(value) == [state |-> "fulfilled", value |-> value]
Rejected(reason) == [state |-> "rejected", reason |-> reason]

\* the value null
null == [reportFormat |-> "null"]

\* console.warn(text), console.log(text)
Warn(out, text) == Append(out, [level |-> "warn", text |-> text])
Log(out, enabled, text) ==
    IF enabled THEN Append(out, [level |-> "log", text |-> text]) ELSE out

\* console.error(text)
Error(out, text) == Append(out, [level |-> "error", text |-> text])

\* JSON.stringify threw on nothing
NothingThrew ==
    [report |-> FALSE, summary |-> FALSE, tool |-> FALSE,
     environment |-> FALSE, tests |-> {}]

\* on which values of report r JSON.stringify throws, when fault names the
\* values that cannot be serialized: a report with such a part cannot be
\* serialized itself, and an absent environment always can
ThrownOn(fault, r) ==
    [report |-> \/ fault.report
                \/ fault.summary
                \/ fault.tool
                \/ (fault.environment /\ Has(r.results, "environment"))
                \/ fault.tests \cap (1..Len(r.results.tests)) # {},
     summary |-> fault.summary,
     tool |-> fault.tool,
     environment |-> fault.environment /\ Has(r.results, "environment"),
     tests |-> fault.tests \cap (1..Len(r.results.tests))]

\* try { JSON.stringify(part); console.log(ok) } catch { console.error(bad) }
Probe(out, failed, ok, bad) ==
    IF failed THEN Error(out, bad)
    ELSE Append(out, [level |-> "log", text |-> ok])

\* console.error(`Test at index ${i} contains invalid data:`, tests[i].name)
TestError(out, index, name) ==
    Append(out, [level |-> "error",
                 text |-> "Test at index contains invalid data:",
                 index |-> index, name |-> name])

\* a loop that stops at the first test it reports
ProbeTests_firstOnly(out, tests, bad, i) ==
    IF bad \cap (i..Len(tests)) = {} THEN out
    ELSE TestError(out,
                   (CHOOSE m \in bad \cap (i..Len(tests)) :
                        \A n \in bad \cap (i..Len(tests)) : m <= n) - 1,
                   tests[CHOOSE m \in bad \cap (i..Len(tests)) :
                            \A n \in bad \cap (i..Len(tests)) : m <= n].name)

\* for (let i = 0; i < tests.length; i++) try { JSON.stringify(tests[i]) } ...
\* from the test at position i of the sequence on
RECURSIVE ProbeTests(_, _, _, _)
ProbeTests(out, tests, bad, i) ==
    IF i > Len(tests) THEN out
    ELSE ProbeTests(IF i \in bad THEN TestError(out, i - 1, tests[i].name)
                    ELSE out,
                    tests, bad, i + 1)

\* the catch block of serializeCTRFReport, up to its throw
Diagnose(out, r, thrown) ==
    ProbeTests(
        Probe(Probe(Probe(Error(Error(out, "Failed to serialize CTRF report to JSON:"),
                                "error.message"),
                          thrown.summary, "Summary serialization: OK",
                          "Summary contains invalid data"),
                    thrown.tool, "Tool serialization: OK",
                    "Tool contains invalid data"),
              thrown.environment, "Environment serialization: OK",
              "Environment contains invalid data"),
        r.results.tests, thrown.tests, 1)

-----------------------------------------------------------------------------
(* Inputs *)

\* all sequences over S of length at most n
RECURSIVE SeqsUpTo(_, _)
SeqsUpTo(S, n) ==
    IF n = 0 THEN {<<>>}
    ELSE LET shorter == SeqsUpTo(S, n - 1)
         IN  shorter \cup {Append(s, x) : s \in {q \in shorter : Len(q) = n - 1},
                                           x \in S}

\* code units of the sanitizer's input strings, one of each class the
\* function tells apart: U+FEFF, NUL, tab, space, 'a', the two halves
\* U+D83C U+DF89 of U+1F389, 'e' and the combining acute accent U+0301
Alphabet == {BOM, 0, 9, SPACE, 97, 55356, 57225, 101, 769}

Strings == SeqsUpTo(Alphabet, MaxStrLen) \cup {undefined}

\* the i-th record of the retry list tagged tag: its message names both
RetryRecord(tag, i) ==
    [message |-> tag \o <<48 + i>>,
     type |-> undefined,
     trace |-> undefined,
     systemOut |-> undefined,
     systemErr |-> undefined]

RetryList(tag, n) == [i \in 1..n |-> RetryRecord(tag, i)]

\* tags of the four lists: 'A', 'B', 'C', 'D'
TagFlakyFailures == <<65>>
TagFlakyErrors == <<66>>
TagRerunFailures == <<67>>
TagRerunErrors == <<68>>

\* the key is missing, or holds a list of 0..maxLen records
OptionalList(key, tag, maxLen) ==
    {<<>>} \cup {key :> RetryList(tag, n) : n \in 0..maxLen}

TextSuite == <<83>>
TextName == <<116>>
TextTime == <<48, 46, 53>>

BaseCase ==
    [suite |-> TextSuite, classname |-> TextSuite, name |-> TextName,
     time |-> TextTime,
     hasFailure |-> FALSE, failureTrace |-> undefined,
     failureMessage |-> undefined, failureType |-> undefined,
     hasError |-> FALSE, errorTrace |-> undefined,
     errorMessage |-> undefined, errorType |-> undefined,
     file |-> undefined, lineno |-> undefined, skipped |-> FALSE,
     systemOut |-> undefined, systemErr |-> undefined]

Flagged(base, f, e, s) ==
    [base EXCEPT !.hasFailure = f, !.hasError = e, !.skipped = s]

\* one test case with every combination of flags and retry lists
RetryCases ==
    {Flagged(BaseCase, f, e, s) @@ ff @@ fe @@ rf @@ re :
        f \in BOOLEAN, e \in BOOLEAN, s \in BOOLEAN,
        ff \in OptionalList("flakyFailures", TagFlakyFailures, MaxRetries),
        fe \in OptionalList("flakyErrors", TagFlakyErrors, MaxRetries),
        rf \in OptionalList("rerunFailures", TagRerunFailures, MaxRetries),
        re \in OptionalList("rerunErrors", TagRerunErrors, MaxRetries)}

\* the test cases of the multi-test reports
ReportCases ==
    {Flagged(BaseCase, f, e, s) @@ ff @@ rf :
        f \in BOOLEAN, e \in BOOLEAN, s \in BOOLEAN,
        ff \in {<<>>, "flakyFailures" :> RetryList(TagFlakyFailures, 1)},
        rf \in {<<>>, "rerunFailures" :> RetryList(TagRerunFailures, 1)}}

TextControl == <<0>>
TextBadTime == <<120>>
TextNegTime == <<45, 49>>
TextLine == <<49, 48>>
TextFailure == <<102>>
TextError == <<101>>
TextOutput == <<111, 10>>

\* test cases that vary the free-text fields
FieldCases ==
    {[BaseCase EXCEPT !.name = n, !.suite = su, !.time = ti, !.lineno = li,
                      !.failureMessage = fm, !.errorMessage = em,
                      !.systemOut = so] :
        n \in {undefined, TextName, TextControl},
        su \in {undefined, TextSuite},
        ti \in {undefined, TextTime, TextBadTime, TextNegTime},
        li \in {undefined, TextLine},
        fm \in {undefined, TextFailure},
        em \in {undefined, TextError},
        so \in {undefined, TextOutput, TextControl}}

TextDirtyName == <<116, 0>>
TextDirtySuite == <<65279, 83>>

\* test cases whose name and suite need sanitizing
NameCases ==
    {[BaseCase EXCEPT !.name = n, !.suite = su] :
        n \in {undefined, TextName, TextDirtyName, TextControl},
        su \in {undefined, TextSuite, TextDirtySuite, TextControl}}

TextDirtyFailure == <<102, 0>>

\* failed test cases that vary the failure and error texts
MessageCases ==
    {[Flagged(BaseCase, TRUE, FALSE, FALSE)
        EXCEPT !.failureMessage = fm, !.errorMessage = em,
               !.failureTrace = ft, !.errorTrace = et] :
        fm \in {undefined, <<>>, TextFailure, TextDirtyFailure, TextControl},
        em \in {undefined, TextError},
        ft \in {undefined, <<>>, TextFailure, TextDirtyFailure, TextControl},
        et \in {undefined, TextError}}

\* a retry record with no fields
EmptyRetry ==
    [message |-> undefined, type |-> undefined, trace |-> undefined,
     systemOut |-> undefined, systemErr |-> undefined]

\* test cases without optional fields, with malformed time and line text,
\* and with absent, empty and field-less retry lists
SparseCases ==
    {[BaseCase EXCEPT !.name = n, !.suite = undefined, !.time = ti,
                      !.lineno = li] @@ ff @@ re :
        n \in {undefined, TextName},
        ti \in {undefined, TextBadTime},
        li \in {undefined, TextBadTime},
        ff \in {<<>>, "flakyFailures" :> <<>>, "flakyFailures" :> <<EmptyRetry>>},
        re \in {<<>>, "rerunErrors" :> <<>>, "rerunErrors" :> <<EmptyRetry>>}}

TextTool == <<120>>
TextValue == <<118>>

ToolNames == {undefined, <<>>, TextTool}
EnvMaps == {Omitted, Supplied(<<>>), Supplied("env" :> TextValue)}
SuiteNameFlags == {Omitted, Supplied(FALSE), Supplied(TRUE)}

\* what readJUnitReportsFromGlob may yield
ReadResults ==
    SeqsUpTo({BaseCase, Flagged(BaseCase, TRUE, FALSE, FALSE),
              [BaseCase EXCEPT !.time = TextBadTime, !.file = TextName]},
             MaxTests)

TextRelativePath == <<111, 47, 114>>
TextAbsolutePath == <<47, 114>>
OutputPaths == {undefined, <<>>, TextRelativePath, TextAbsolutePath}

\* 'a=b', 'a=b=c', 'a', 'a=c'
EnvStringLists ==
    {Omitted, Supplied(<<>>), Supplied(<<<<97, 61, 98>>>>),
     Supplied(<<<<97, 61, 98, 61, 99>>>>), Supplied(<<<<97>>>>),
     Supplied(<<<<97, 61, 98>>, <<97, 61, 99>>>>)}

LogFlags == {Omitted, Supplied(TRUE)}

\* the values JSON.stringify may be unable to serialize
StringifyFaults ==
    {NothingThrew,
     [NothingThrew EXCEPT !.report = TRUE],
     [NothingThrew EXCEPT !.summary = TRUE],
     [NothingThrew EXCEPT !.tool = TRUE],
     [NothingThrew EXCEPT !.environment = TRUE],
     [NothingThrew EXCEPT !.tests = {1}],
     [NothingThrew EXCEPT !.tests = {2}],
     [NothingThrew EXCEPT !.tests = 1..MaxTests],
     [NothingThrew EXCEPT !.summary = TRUE, !.tests = {2}],
     [NothingThrew EXCEPT !.tool = TRUE, !.environment = TRUE, !.tests = {1}]}

\* the directories that exist before the call
InitialDirs == {{<<47>>}, {<<47>>, Cwd, Cwd \o <<47, 111>>}}

\* the instants new Date() may read
Clock == {0, 1}

NoReport == [reportFormat |-> "none"]

-----------------------------------------------------------------------------
(* The caller: one call of an exported function *)

InitSanitize ==
    /\ call = "sanitizeString"
    /\ str \in Strings
    /\ testCases = <<>>
    /\ toolName = undefined
    /\ envProps = Omitted
    /\ useSuiteName = Omitted

InitRetry ==
    /\ call = "createCTRFReport"
    /\ str = undefined
    /\ testCases \in {<<tc>> : tc \in RetryCases}
    /\ toolName = undefined
    /\ envProps = Omitted
    /\ useSuiteName = Omitted

InitReport ==
    /\ call = "createCTRFReport"
    /\ str = undefined
    /\ testCases \in SeqsUpTo(ReportCases, MaxTests)
    /\ toolName = undefined
    /\ envProps = Omitted
    /\ useSuiteName = Omitted

InitFields ==
    /\ call = "createCTRFReport"
    /\ str = undefined
    /\ testCases \in SeqsUpTo(FieldCases, 1)
    /\ toolName \in ToolNames
    /\ envProps \in EnvMaps
    /\ useSuiteName \in SuiteNameFlags

InitNames ==
    /\ call = "createCTRFReport"
    /\ str = undefined
    /\ testCases \in {<<tc>> : tc \in NameCases}
    /\ toolName = undefined
    /\ envProps = Omitted
    /\ useSuiteName \in SuiteNameFlags

InitSparse ==
    /\ call = "createCTRFReport"
    /\ str = undefined
    /\ testCases \in {<<tc>> : tc \in SparseCases}
    /\ toolName = undefined
    /\ envProps = Omitted
    /\ useSuiteName \in SuiteNameFlags

InitMessages ==
    /\ call = "createCTRFReport"
    /\ str = undefined
    /\ testCases \in {<<tc>> : tc \in MessageCases}
    /\ toolName = undefined
    /\ envProps = Omitted
    /\ useSuiteName = Omitted

\* the calls that do not touch the file system
NoConversion ==
    /\ outputPath = undefined
    /\ envStrings = Omitted
    /\ log = Omitted
    /\ console = <<>>
    /\ dirs = {}
    /\ files = <<>>
    /\ outcome = Pending
    /\ threw = NothingThrew
    /\ fsCalls = <<>>

InitConvert ==
    /\ call = "convertJUnitToCTRFReport"
    /\ str = undefined
    /\ testCases = <<>>
    /\ toolName \in {undefined, TextTool}
    /\ envProps = Omitted
    /\ useSuiteName = Omitted
    /\ outputPath \in OutputPaths
    /\ envStrings \in EnvStringLists
    /\ log \in LogFlags
    /\ console = <<>>
    /\ dirs \in InitialDirs
    /\ files = <<>>
    /\ outcome = Pending
    /\ threw = NothingThrew
    /\ fsCalls = <<>>

Init ==
    /\ pc = "start"
    /\ sanitized = undefined
    /\ report = NoReport
    /\ \/ NoConversion /\ (InitSanitize \/ InitRetry \/ InitReport
                            \/ InitFields \/ InitNames \/ InitMessages
                            \/ InitSparse)
       \/ InitConvert

SanitizeString ==
    /\ pc = "start"
    /\ call = "sanitizeString"
    /\ sanitized' = sanitizeString(str)
    /\ pc' = "done"
    /\ UNCHANGED <<call, str, testCases, toolName, envProps, useSuiteName,
                   report>>
    /\ UNCHANGED convertVars

CreateCTRFReport ==
    /\ pc = "start"
    /\ call = "createCTRFReport"
    /\ \E now \in Clock :
          report' = createCTRFReport(testCases, toolName, envProps,
                                     useSuiteName, now)
    /\ pc' = "done"
    /\ UNCHANGED <<call, str, sanitized, testCases, toolName, envProps,
                   useSuiteName>>
    /\ UNCHANGED convertVars

\* the call: convertJUnitToCTRFReport runs up to its first await
ConvertJUnitToCTRFReport ==
    /\ pc = "start"
    /\ call = "convertJUnitToCTRFReport"
    /\ pc' = "readJUnitReportsFromGlob"
    /\ UNCHANGED <<call, str, sanitized, testCases, toolName, envProps,
                   useSuiteName, report>>
    /\ UNCHANGED convertVars

\* return null after the warning
ReturnNull ==
    /\ console' = Warn(console, "No test cases found in the provided path. No CTRF report generated.")
    /\ outcome' = Fulfilled(null)
    /\ pc' = "done"
    /\ UNCHANGED <<report, dirs, files, fsCalls>>

\* createCTRFReport, then either the call of fs.ensureDir or return ctrfReport
Convert(ctrfReport) ==
    /\ report' = ctrfReport
    /\ IF Truthy(outputPath)
       THEN /\ console' = Log(console, ToBoolean(log), "Converting test cases to CTRF format")
            /\ fsCalls' = Append(fsCalls,
                                 EnsureDirCall(dirname(resolve(outputPath))))
            /\ pc' = "ensureDir"
            /\ outcome' = outcome
       ELSE /\ console' = Log(console, ToBoolean(log), "Converting test cases to CTRF format")
            /\ fsCalls' = fsCalls
            /\ pc' = "done"
            /\ outcome' = Fulfilled(ctrfReport)
    /\ UNCHANGED <<dirs, files>>

\* the reader's promise resolves with the test cases it read
ReadResolved ==
    /\ pc = "readJUnitReportsFromGlob"
    /\ \E cases \in ReadResults :
          /\ testCases' = cases
          /\ IF NoTestCases(cases) THEN ReturnNull
             ELSE \E now \in Clock :
                    Convert(createCTRFReport(cases, toolName,
                                             Supplied(envPropsObj(envStrings)),
                                             useSuiteName, now))
    /\ UNCHANGED <<call, str, sanitized, toolName, envProps, useSuiteName,
                   outputPath, envStrings, log, threw>>

\* serializeCTRFReport returns: fs.writeFile is called
Serialized(out) ==
    /\ console' = out
    /\ fsCalls' = Append(fsCalls, WriteFileCall(resolve(outputPath), report))
    /\ pc' = "writeFile"
    /\ UNCHANGED <<outcome, threw>>

\* serializeCTRFReport throws after its diagnostics: the error propagates
NotSerialized(out, thrown) ==
    /\ console' = Diagnose(out, report, thrown)
    /\ threw' = thrown
    /\ outcome' = Rejected("stringify")
    /\ pc' = "done"
    /\ UNCHANGED fsCalls

\* fs.ensureDir resolves: the report is serialized and fs.writeFile called
EnsureDirResolved ==
    /\ pc = "ensureDir"
    /\ dirs' = ensureDir(dirs, fsCalls[Len(fsCalls)].path)
    /\ \E fault \in StringifyFaults :
          IF ThrownOn(fault, report).report
          THEN NotSerialized(Log(console, ToBoolean(log), "Writing CTRF report to:"),
                             ThrownOn(fault, report))
          ELSE Serialized(Log(console, ToBoolean(log), "Writing CTRF report to:"))
    /\ UNCHANGED <<call, str, sanitized, testCases, toolName, envProps,
                   useSuiteName, report, outputPath, envStrings, log, files>>

\* fs.ensureDir rejects: the error propagates to the caller
EnsureDirRejected ==
    /\ pc = "ensureDir"
    /\ outcome' = Rejected("ensureDir")
    /\ pc' = "done"
    /\ UNCHANGED <<call, str, sanitized, testCases, toolName, envProps,
                   useSuiteName, report, outputPath, envStrings, log, console,
                   dirs, files, threw, fsCalls>>

\* fs.writeFile resolves: return ctrfReport
WriteFileResolved ==
    /\ pc = "writeFile"
    /\ files' = (fsCalls[Len(fsCalls)].path :> fsCalls[Len(fsCalls)].data)
                    @@ files
    /\ console' = Log(console, ToBoolean(log), "CTRF report written to")
    /\ outcome' = Fulfilled(report)
    /\ pc' = "done"
    /\ UNCHANGED <<call, str, sanitized, testCases, toolName, envProps,
                   useSuiteName, report, outputPath, envStrings, log, dirs,
                   threw, fsCalls>>

\* fs.writeFile rejects: the error propagates to the caller
WriteFileRejected ==
    /\ pc = "writeFile"
    /\ outcome' = Rejected("writeFile")
    /\ pc' = "done"
    /\ UNCHANGED <<call, str, sanitized, testCases, toolName, envProps,
                   useSuiteName, report, outputPath, envStrings, log, console,
                   dirs, files, threw, fsCalls>>

Next ==
    \/ SanitizeString
    \/ CreateCTRFReport
    \/ ConvertJUnitToCTRFReport
    \/ ReadResolved
    \/ EnsureDirResolved
    \/ EnsureDirRejected
    \/ WriteFileResolved
    \/ WriteFileRejected

Spec == Init /\ [][Next]_vars

-----------------------------------------------------------------------------
(* Properties *)

\* createCTRFReport has returned
Reported == pc = "done" /\ call = "createCTRFReport"

\* sanitizeString has returned
Sanitized == pc = "done" /\ call = "sanitizeString"

Tests == report.results.tests
Summary == report.results.summary

\* number of records of a retry list of the input, 0 for a missing list
ListLen(tc, key) == IF key \in DOMAIN tc THEN Len(tc[key]) ELSE 0

\* the records of a retry list of the input, none for a missing list
Records(tc, key) == IF key \in DOMAIN tc THEN tc[key] ELSE <<>>

FlakyIn(tc) == ListLen(tc, "flakyFailures") > 0 \/ ListLen(tc, "flakyErrors") > 0
RerunIn(tc) == ListLen(tc, "rerunFailures") > 0 \/ ListLen(tc, "rerunErrors") > 0

\* the input records in the order flakyFailures, flakyErrors, rerunFailures,
\* rerunErrors
AllRecords(tc) ==
    Records(tc, "flakyFailures") \o Records(tc, "flakyErrors")
        \o Records(tc, "rerunFailures") \o Records(tc, "rerunErrors")

\* the history of test t holds one attempt per record of recs, in that
\* order, numbered first, first + 1, ...
NumberedFrom(t, recs, first) ==
    /\ "retryAttempts" \in DOMAIN t
    /\ Len(t.retryAttempts) = Len(recs)
    /\ \A k \in 1..Len(recs) :
          /\ t.retryAttempts[k].attempt = first + k - 1
          /\ t.retryAttempts[k].message = recs[k].message

\* C1: the final status of every test follows the priority table: passed if
\* a flaky list is non-empty, else failed if a rerun list is non-empty, else
\* failed if hasFailure or hasError, else skipped if skipped, else passed;
\* no other status is produced.
C1_StatusPriority ==
    Reported =>
        \A i \in 1..Len(testCases) :
            LET tc == testCases[i]
                expected == IF FlakyIn(tc) THEN "passed"
                            ELSE IF RerunIn(tc) THEN "failed"
                            ELSE IF tc.hasFailure \/ tc.hasError THEN "failed"
                            ELSE IF tc.skipped THEN "skipped"
                            ELSE "passed"
            IN  /\ Tests[i].status = expected
                /\ Tests[i].status \in {"passed", "failed", "skipped"}

\* a flaky test with a failure flag is passed while a skipped test with a
\* failure flag is failed and a plainly skipped one is skipped
C1_Witness ==
    /\ Reported
    /\ \E i, j \in 1..Len(testCases) :
          /\ FlakyIn(testCases[i]) /\ testCases[i].hasFailure
          /\ testCases[i].skipped /\ Tests[i].status = "passed"
          /\ ~FlakyIn(testCases[j]) /\ ~RerunIn(testCases[j])
          /\ testCases[j].skipped /\ ~testCases[j].hasFailure
          /\ ~testCases[j].hasError /\ Tests[j].status = "skipped"

\* C2: with no flaky record and at least one rerun record, the attempts are
\* numbered 2, 3, ... in the order rerunFailures then rerunErrors, the final
\* status is failed whatever the flags are, and there is no flaky field.
C2_RerunOnly ==
    Reported =>
        \A i \in 1..Len(testCases) :
            LET tc == testCases[i]
            IN  (~FlakyIn(tc) /\ RerunIn(tc)) =>
                    /\ NumberedFrom(Tests[i],
                                    Records(tc, "rerunFailures")
                                        \o Records(tc, "rerunErrors"), 2)
                    /\ Tests[i].status = "failed"
                    /\ "flaky" \notin DOMAIN Tests[i]

C2_Witness ==
    /\ Reported
    /\ \E i \in 1..Len(testCases) :
          /\ ~FlakyIn(testCases[i])
          /\ ListLen(testCases[i], "rerunFailures") > 0
          /\ ListLen(testCases[i], "rerunErrors") > 0
          /\ ~testCases[i].hasFailure /\ ~testCases[i].hasError
          /\ testCases[i].skipped
          /\ Tests[i].status = "failed"
          /\ Tests[i].retryAttempts[1].attempt = 2

\* C3: with at least one flaky record and no rerun record, the final status
\* is passed, flaky is true, and the attempts are numbered 1..N in the order
\* flakyFailures then flakyErrors, N being the sum of both lengths.
C3_FlakyOnly ==
    Reported =>
        \A i \in 1..Len(testCases) :
            LET tc == testCases[i]
            IN  (FlakyIn(tc) /\ ~RerunIn(tc)) =>
                    /\ NumberedFrom(Tests[i],
                                    Records(tc, "flakyFailures")
                                        \o Records(tc, "flakyErrors"), 1)
                    /\ Len(Tests[i].retryAttempts)
                          = ListLen(tc, "flakyFailures") + ListLen(tc, "flakyErrors")
                    /\ Tests[i].status = "passed"
                    /\ "flaky" \in DOMAIN Tests[i] /\ Tests[i].flaky = TRUE

C3_Witness ==
    /\ Reported
    /\ \E i \in 1..Len(testCases) :
          /\ ListLen(testCases[i], "flakyFailures") > 0
          /\ ListLen(testCases[i], "flakyErrors") > 0
          /\ ~RerunIn(testCases[i])
          /\ Tests[i].status = "passed"
          /\ Tests[i].retries
                = ListLen(testCases[i], "flakyFailures")
                    + ListLen(testCases[i], "flakyErrors")

\* C4: with both a flaky record and a rerun record, the rerun attempts
\* continue the numbering after the last flaky attempt (order flakyFailures,
\* flakyErrors, rerunFailures, rerunErrors) and the final status is passed
\* with flaky true, even if hasFailure or hasError is set.
C4_FlakyAndRerun ==
    Reported =>
        \A i \in 1..Len(testCases) :
            LET tc == testCases[i]
            IN  (FlakyIn(tc) /\ RerunIn(tc)) =>
                    /\ NumberedFrom(Tests[i], AllRecords(tc), 1)
                    /\ Tests[i].status = "passed"
                    /\ "flaky" \in DOMAIN Tests[i] /\ Tests[i].flaky = TRUE

C4_Witness ==
    /\ Reported
    /\ \E i \in 1..Len(testCases) :
          /\ ListLen(testCases[i], "flakyFailures") > 0
          /\ ListLen(testCases[i], "flakyErrors") > 0
          /\ ListLen(testCases[i], "rerunFailures") > 0
          /\ ListLen(testCases[i], "rerunErrors") > 0
          /\ testCases[i].hasFailure /\ testCases[i].hasError
          /\ Tests[i].status = "passed"
          /\ Tests[i].retryAttempts[Len(Tests[i].retryAttempts)].attempt
                = Len(AllRecords(testCases[i]))

\* the attempt numbers of test t are strictly increasing
StrictlyIncreasing(t) ==
    \A k \in 1..(Len(t.retryAttempts) - 1) :
        t.retryAttempts[k].attempt < t.retryAttempts[k + 1].attempt

\* C5 as stated: the attempt numbers of every test that carries a history
\* are strictly increasing and the first one is 1.
C5_Original ==
    Reported =>
        \A i \in 1..Len(testCases) :
            "retryAttempts" \in DOMAIN Tests[i] =>
                /\ StrictlyIncreasing(Tests[i])
                /\ Tests[i].retryAttempts[1].attempt = 1

\* C5 amended: the attempt numbers of every test that carries a history are
\* strictly increasing; the first one is 1 when the test case has a flaky
\* record and 2 when it has rerun records only.
C5_AttemptNumbers ==
    Reported =>
        \A i \in 1..Len(testCases) :
            "retryAttempts" \in DOMAIN Tests[i] =>
                /\ StrictlyIncreasing(Tests[i])
                /\ Tests[i].retryAttempts[1].attempt
                      = IF FlakyIn(testCases[i]) THEN 1 ELSE 2

C5_Witness ==
    /\ Reported
    /\ \E i \in 1..Len(testCases) :
          /\ ~FlakyIn(testCases[i])
          /\ "retryAttempts" \in DOMAIN Tests[i]
          /\ Len(Tests[i].retryAttempts) >= 3
          /\ Tests[i].retryAttempts[1].attempt = 2
          /\ Tests[i].retryAttempts[3].attempt = 4

\* C6: a test carries retries and retryAttempts exactly when the test case
\* has at least one retry record; retries is then the length of
\* retryAttempts, and neither field is ever 0 or an empty list.
C6_RetriesPresence ==
    Reported =>
        \A i \in 1..Len(testCases) :
            LET t == Tests[i]
            IN  /\ ("retries" \in DOMAIN t) = (Len(AllRecords(testCases[i])) > 0)
                /\ ("retryAttempts" \in DOMAIN t) = ("retries" \in DOMAIN t)
                /\ "retries" \in DOMAIN t =>
                      /\ t.retries = Len(t.retryAttempts)
                      /\ t.retries > 0

\* a test case whose lists are present but empty gets neither field
C6_Witness ==
    /\ Reported
    /\ \E i \in 1..Len(testCases) :
          /\ "flakyFailures" \in DOMAIN testCases[i]
          /\ "rerunErrors" \in DOMAIN testCases[i]
          /\ Len(AllRecords(testCases[i])) = 0
          /\ "retries" \notin DOMAIN Tests[i]
          /\ "retryAttempts" \notin DOMAIN Tests[i]

\* C7: passed + failed + skipped + pending + other = tests, tests is the
\* number of input test cases, and pending and other are 0.
C7_SummarySums ==
    Reported =>
        /\ Summary.passed + Summary.failed + Summary.skipped
              + Summary.pending + Summary.other = Summary.tests
        /\ Summary.tests = Len(testCases)
        /\ Summary.pending = 0
        /\ Summary.other = 0

C7_Witness ==
    /\ Reported
    /\ Len(testCases) >= 2
    /\ Summary.passed = 0
    /\ Summary.failed >= 1
    /\ Summary.skipped >= 1

\* the tests of the report that carry flaky = true
FlakyTests == {i \in 1..Len(Tests) : "flaky" \in DOMAIN Tests[i] /\ Tests[i].flaky}

\* C8: the summary has a flaky key exactly when some test of the report has
\* flaky = true, and its value is then the number of such tests.
C8_SummaryFlaky ==
    Reported =>
        /\ ("flaky" \in DOMAIN Summary) = (FlakyTests # {})
        /\ "flaky" \in DOMAIN Summary => Summary.flaky = Cardinality(FlakyTests)

\* one flaky test next to a retried test that is not flaky
C8_Witness ==
    /\ Reported
    /\ "flaky" \in DOMAIN Summary
    /\ Summary.flaky = 1
    /\ \E i \in 1..Len(Tests) :
          "retries" \in DOMAIN Tests[i] /\ "flaky" \notin DOMAIN Tests[i]

\* C9: for an empty input the summary is exactly {tests: 0, passed: 0,
\* failed: 0, skipped: 0, pending: 0, other: 0, start: 0, stop: 0}, with no
\* flaky key, and the list of tests is empty.
C9_EmptyInput ==
    (Reported /\ testCases = <<>>) =>
        /\ Summary = [tests |-> 0, passed |-> 0, failed |-> 0, skipped |-> 0,
                      pending |-> 0, other |-> 0, start |-> 0, stop |-> 0]
        /\ Tests = <<>>

C9_Witness ==
    /\ Reported
    /\ testCases = <<>>
    /\ envProps # Omitted
    /\ report.reportFormat = "CTRF"
    /\ DOMAIN Summary = {"tests", "passed", "failed", "skipped", "pending",
                         "other", "start", "stop"}

\* U+D800..U+DFFF, high halves U+D800..U+DBFF, low halves U+DC00..U+DFFF
IsSurrogateUnit(c) == c >= 55296 /\ c <= 57343
IsHighUnit(c) == c >= 55296 /\ c <= 56319
IsLowUnit(c) == c >= 56320 /\ c <= 57343

\* unit i of s is one half of a high surrogate immediately followed by a
\* low surrogate
Paired(s, i) ==
    \/ IsHighUnit(s[i]) /\ i < Len(s) /\ IsLowUnit(s[i + 1])
    \/ IsLowUnit(s[i]) /\ i > 1 /\ IsHighUnit(s[i - 1])

\* strings of letters and surrogates only: sanitizeString neither removes
\* nor merges units, so unit i of the result stems from unit i of the input
LettersAndSurrogates(s) ==
    /\ s # undefined
    /\ Len(s) > 0
    /\ \A i \in 1..Len(s) : s[i] = 97 \/ IsSurrogateUnit(s[i])

\* C10: sanitizeString replaces every isolated surrogate code unit with
\* U+FFFD and leaves every high surrogate immediately followed by a low
\* surrogate, and that low surrogate, intact.
C10_Original ==
    (Sanitized /\ LettersAndSurrogates(str)) =>
        /\ Len(sanitized) = Len(str)
        /\ \A i \in 1..Len(str) :
              IF IsSurrogateUnit(str[i]) /\ ~Paired(str, i)
              THEN sanitized[i] = REPLACEMENT
              ELSE sanitized[i] = str[i]

\* C11: sanitizeString is idempotent: sanitizing its result again gives the
\* same result, also when the result is undefined.
C11_Idempotent ==
    Sanitized => sanitizeString(sanitized) = sanitized

\* a byte-order mark between 'e' and the combining accent: the first pass
\* removes the mark and composes the pair
C11_Witness ==
    /\ Sanitized
    /\ str = <<101, 65279, 769>>
    /\ sanitized = <<233>>

\* the control characters U+0000-U+0008, U+000B, U+000C, U+000E-U+001F, U+007F
ControlUnits == (0..8) \cup {11, 12} \cup (14..31) \cup {127}

\* no surrogate and no combining mark: the units that normalization and
\* surrogate replacement leave alone
OrdinaryText(s) ==
    /\ s # undefined
    /\ \A i \in 1..Len(s) : ~IsSurrogateUnit(s[i]) /\ s[i] # 769

\* s without its byte-order marks and with one space for each control unit
Cleaned(s) ==
    LET kept == SelectSeq(s, LAMBDA c : c # 65279)
    IN  [i \in 1..Len(kept) |-> IF kept[i] \in ControlUnits THEN 32 ELSE kept[i]]

BlankUnits ==
    ControlUnits \cup {9, 10, 13, 32, 160, 5760, 8232, 8233, 8239, 8287,
                       12288, 65279} \cup (8192..8202)

\* C13: sanitizeString returns undefined for undefined input and whenever
\* the transformed string is empty or all white space (so for every input
\* of white space, control characters and byte-order marks only); otherwise
\* it returns the transformed, non-empty string.
C13_UndefinedWhenBlank ==
    Sanitized =>
        /\ (sanitized = undefined) =
              (str = undefined \/ \A i \in 1..Len(str) : str[i] \in BlankUnits)
        /\ sanitized # undefined =>
              /\ Len(sanitized) > 0
              /\ \E i \in 1..Len(sanitized) : sanitized[i] \notin BlankUnits

C13_Witness ==
    /\ Sanitized
    /\ str = <<0, 65279, 9>>
    /\ sanitized = undefined

\* the stdout and stderr arrays that object o carries
OutputArrays(o) ==
    {o[k] : k \in {"stdout", "stderr"} \cap DOMAIN o}

\* the retry attempts recorded on test t
Attempts(t) ==
    IF "retryAttempts" \in DOMAIN t
    THEN {t.retryAttempts[i] : i \in 1..Len(t.retryAttempts)}
    ELSE {}

\* C14: convertOutputToArray never returns an empty sequence, so a stdout or
\* stderr array carried by a test or by a retry attempt of a report has at
\* least one line.
C14_Original ==
    Reported =>
        \A i \in 1..Len(Tests) :
            \A o \in {Tests[i]} \cup Attempts(Tests[i]) :
                \A lines \in OutputArrays(o) : Len(lines) >= 1

\* sub occurs in s
Contains(s, sub) ==
    \E k \in 0..(Len(s) - Len(sub)) : SubSeq(s, k + 1, k + Len(sub)) = sub

\* the name of a test whose sanitized name is sn and sanitized suite is ss,
\* with no text standing in for a missing field
NameWithoutSentinel(name, sn, ss, withSuiteName) ==
    /\ ~Contains(name, TextUndefined)
    /\ (withSuiteName /\ ss = undefined /\ sn # undefined) => name = sn
    /\ (sn = undefined /\ (ss = undefined \/ ~withSuiteName)) =>
          name = TextUnnamedTest

\* C15: the name of a test never contains the text 'undefined' for a missing
\* field: with useSuiteName set and no suite the name is the sanitized test
\* name, and an empty or absent name becomes 'Unnamed Test'.
C15_Original ==
    Reported =>
        \A i \in 1..Len(Tests) :
            NameWithoutSentinel(Tests[i].name,
                                sanitizeString(testCases[i].name),
                                sanitizeString(testCases[i].suite),
                                ToBoolean(useSuiteName))

\* the name composed from sanitized suite ss and sanitized name sn
ComposedName(sn, ss, withSuiteName) ==
    IF withSuiteName THEN ss \o <<58, 32>> \o sn ELSE sn

DurationOf(duration, seconds) ==
    /\ ~duration.nan
    /\ duration.val >= 0
    /\ duration.val = IF seconds.nan THEN 0 ELSE RoundTimes1000(seconds).val

\* C17: every test duration is a non-negative integer number of
\* milliseconds, the time field in seconds times 1000 rounded to the nearest
\* integer, and 0 when the time field is absent or cannot be parsed.
C17_Original ==
    Reported =>
        \A i \in 1..Len(Tests) :
            DurationOf(Tests[i].duration,
                       IF testCases[i].time = undefined THEN NaN
                       ELSE parseFloat(testCases[i].time))

\* text is the sanitized failure text whenever that is usable and the
\* sanitized error text in every other case
ErrorWheneverUnusable(text, failure, error) ==
    text = IF sanitizeString(failure) # undefined THEN sanitizeString(failure)
           ELSE sanitizeString(error)

\* C18 as stated: message (and trace) is the sanitized failure text when
\* there is one and the sanitized error text otherwise, an error text being
\* used whenever no usable failure text exists.
C18_Original ==
    Reported =>
        \A i \in 1..Len(Tests) :
            /\ ErrorWheneverUnusable(Tests[i].message,
                                     testCases[i].failureMessage,
                                     testCases[i].errorMessage)
            /\ ErrorWheneverUnusable(Tests[i].trace,
                                     testCases[i].failureTrace,
                                     testCases[i].errorTrace)

\* text is sanitized from the failure text when that is a non-empty string
\* and from the error text otherwise
FailureUnlessEmpty(text, failure, error) ==
    /\ (failure # undefined /\ failure # <<>>) =>
          text = sanitizeString(failure)
    /\ (failure = undefined \/ failure = <<>>) =>
          text = sanitizeString(error)

\* C18: message (and trace) is the sanitized failure text when the failure
\* text is present and not the empty string, otherwise the sanitized error
\* text; a failure text that is blank after sanitization gives undefined
\* even when an error text exists.
C18_FailureBeforeError ==
    Reported =>
        \A i \in 1..Len(Tests) :
            /\ FailureUnlessEmpty(Tests[i].message,
                                  testCases[i].failureMessage,
                                  testCases[i].errorMessage)
            /\ FailureUnlessEmpty(Tests[i].trace,
                                  testCases[i].failureTrace,
                                  testCases[i].errorTrace)

\* a failure message of one control character beside an error message, and
\* an empty failure trace beside an error trace
C18_Witness ==
    /\ Reported
    /\ Len(testCases) = 1
    /\ testCases[1].failureMessage = <<0>>
    /\ testCases[1].errorMessage = <<101>>
    /\ Tests[1].message = undefined
    /\ testCases[1].failureTrace = <<>>
    /\ testCases[1].errorTrace = <<101>>
    /\ Tests[1].trace = <<101>>

\* C19: the report of createCTRFReport has results.environment if and only
\* if the supplied environment mapping has at least one key, and then it
\* equals the supplied mapping; with no mapping or an empty one the key is
\* absent.
C19_Environment ==
    Reported =>
        /\ ("environment" \in DOMAIN report.results) =
              (envProps # Omitted /\ DOMAIN envProps[1] # {})
        /\ "environment" \in DOMAIN report.results =>
              report.results.environment = envProps[1]

C19_Witness ==
    /\ Reported
    /\ envProps = <<"env" :> <<118>>>>
    /\ report.results.environment = "env" :> <<118>>

\* an empty mapping was supplied and the report has no environment
C19_WitnessEmpty ==
    /\ Reported
    /\ envProps = <<<<>>>>
    /\ "environment" \notin DOMAIN report.results

Converted == pc = "done" /\ call = "convertJUnitToCTRFReport"

\* the one console line of a call that found no test case
WarnedOnly ==
    /\ Len(console) = 1
    /\ console[1].level = "warn"

\* a step of a call whose reader yielded no test case leaves the file
\* system as it was
NoFileSystemEffect ==
    (call = "convertJUnitToCTRFReport" /\ testCases' = <<>>) =>
        (dirs' = dirs /\ files' = files)

\* C20 as stated: with zero test cases convertJUnitToCTRFReport warns and
\* resolves to null, creating no directory and writing no file; with one or
\* more test cases it resolves to a non-null Report.
C20_Original ==
    /\ [](Converted =>
            IF testCases = <<>>
            THEN outcome = Fulfilled(null) /\ WarnedOnly
            ELSE outcome.state = "fulfilled" /\ outcome.value # null)
    /\ [][NoFileSystemEffect]_vars

\* C20: with zero test cases convertJUnitToCTRFReport warns and resolves to
\* null, creating no directory and writing no file even when outputPath is
\* given; with one or more test cases it resolves to the non-null Report,
\* unless outputPath is given and ensuring the directory, serializing the
\* report or writing the file fails, and then the promise is rejected.
C20_NullOnlyWhenEmpty ==
    /\ [](Converted =>
            IF testCases = <<>>
            THEN outcome = Fulfilled(null) /\ WarnedOnly
            ELSE \/ /\ outcome = Fulfilled(report)
                    /\ report.reportFormat = "CTRF"
                    /\ Len(report.results.tests) = Len(testCases)
                 \/ /\ outcome.state = "rejected"
                    /\ Truthy(outputPath)
                    /\ outcome.reason \in {"ensureDir", "stringify", "writeFile"})
    /\ [][NoFileSystemEffect]_vars

\* no test case was read although outputPath 'o/r' was given: null, one
\* warning, no directory /w/o, no file
C20_Witness ==
    /\ Converted
    /\ testCases = <<>>
    /\ outputPath = <<111, 47, 114>>
    /\ outcome = Fulfilled(null)
    /\ WarnedOnly
    /\ dirs = {<<47>>}
    /\ files = <<>>

\* a test case was read and the file could not be written
C20_WitnessRejected ==
    /\ Converted
    /\ Len(testCases) = 1
    /\ outcome = Rejected("writeFile")
    /\ files = <<>>

\* console line k reports the probe of one part: an error exactly when
\* JSON.stringify threw on that part
ProbeReported(k, failed) ==
    console[k].level = (IF failed THEN "error" ELSE "log")

\* the console lines after line last are one error for each unserializable
\* test, in index order, each with the index and the name of its test
TestsReported(last) ==
    /\ Len(console) = last + Cardinality(threw.tests)
    /\ \A k \in (last + 1)..Len(console) :
          /\ console[k].level = "error"
          /\ console[k].index + 1 \in threw.tests
          /\ console[k].name = report.results.tests[console[k].index + 1].name
    /\ \A j, k \in (last + 1)..Len(console) :
          j < k => console[j].index < console[k].index

\* the diagnostics of a failed serialization start at console line f
DiagnosedFrom(f) ==
    /\ console[f].level = "error"
    /\ console[f].text = "Failed to serialize CTRF report to JSON:"
    /\ console[f + 1].level = "error"
    /\ ProbeReported(f + 2, threw.summary)
    /\ ProbeReported(f + 3, threw.tool)
    /\ ProbeReported(f + 4, threw.environment)
    /\ TestsReported(f + 4)

\* C21: when serializing the assembled report fails, the summary, the tool,
\* the environment and then each test in index order are probed and every
\* unserializable one is reported; the original failure then reaches the
\* caller (the promise is rejected), the report is unchanged and no output
\* file is written. Without a failure nothing is reported as an error.
C21_SerializationFailure ==
    /\ [](Converted =>
            IF threw.report
            THEN /\ outcome = Rejected("stringify")
                 /\ files = <<>>
                 /\ DiagnosedFrom(IF ToBoolean(log) THEN 3 ELSE 1)
            ELSE /\ outcome # Rejected("stringify")
                 /\ \A k \in 1..Len(console) : console[k].level # "error")
    /\ [][report.reportFormat = "CTRF" => report' = report]_vars

\* the summary and the second of two tests cannot be serialized
C21_Witness ==
    /\ Converted
    /\ Len(testCases) = 2
    /\ threw = [report |-> TRUE, summary |-> TRUE, tool |-> FALSE,
                environment |-> FALSE, tests |-> {2}]
    /\ outcome = Rejected("stringify")
    /\ log = Omitted
    /\ Len(console) = 6
    /\ console[3].text = "Summary contains invalid data"
    /\ console[4].text = "Tool serialization: OK"
    /\ console[6].index = 1
    /\ files = <<>>

\* both tests cannot be serialized and both are reported, in order
C21_WitnessTwoTests ==
    /\ Converted
    /\ threw.tests = {1, 2}
    /\ Len(console) = 7
    /\ console[6].index = 0
    /\ console[7].index = 1

\* test t has every field a CanonicalTest must have
CompleteTest(t) ==
    /\ {"name", "status", "duration", "filePath", "line", "message", "trace",
        "suite"} \subseteq DOMAIN t
    /\ t.name # undefined
    /\ t.status \in {"passed", "failed", "skipped"}
    /\ ("retries" \in DOMAIN t) = ("retryAttempts" \in DOMAIN t)

\* r is a whole report for n test cases
CompleteReport(r, n) ==
    /\ DOMAIN r = {"reportFormat", "specVersion", "generatedBy", "timestamp",
                   "results"}
    /\ r.reportFormat = "CTRF"
    /\ {"tool", "summary", "tests"} \subseteq DOMAIN r.results
    /\ r.results.summary.tests = n
    /\ Len(r.results.tests) = n
    /\ \A i \in 1..n : CompleteTest(r.results.tests[i])

\* C22: createCTRFReport is total: what a call returns is a complete report
\* with one complete test per test case, also for records without optional
\* fields, with absent, empty or field-less retry lists and with malformed
\* time or line text; no partial report is returned.
C22_Total ==
    Reported => CompleteReport(report, Len(testCases))

\* no name, malformed time and line, one field-less flaky record
C22_Witness ==
    /\ Reported
    /\ Len(testCases) = 1
    /\ testCases[1].name = undefined
    /\ testCases[1].time = <<120>>
    /\ testCases[1].lineno = <<120>>
    /\ "flakyFailures" \in DOMAIN testCases[1]
    /\ testCases[1].flakyFailures = <<EmptyRetry>>
    /\ CompleteReport(report, 1)
    /\ Tests[1].duration.nan
    /\ Tests[1].retries = 1

\* C23: a test has flaky: true if and only if its test case has a non-empty
\* flakyFailures or flakyErrors list; otherwise the flaky key is absent,
\* never false.
C23_FlakyKey ==
    Reported =>
        \A i \in 1..Len(testCases) :
            IF ListLen(testCases[i], "flakyFailures") > 0
                \/ ListLen(testCases[i], "flakyErrors") > 0
            THEN "flaky" \in DOMAIN Tests[i] /\ Tests[i].flaky = TRUE
            ELSE "flaky" \notin DOMAIN Tests[i]

\* a failed test with rerun records and an empty flakyFailures list has no
\* flaky key
C23_Witness ==
    /\ Reported
    /\ Len(testCases) = 1
    /\ "flakyFailures" \in DOMAIN testCases[1]
    /\ testCases[1].flakyFailures = <<>>
    /\ ListLen(testCases[1], "flakyErrors") = 0
    /\ ListLen(testCases[1], "rerunFailures") > 0
    /\ testCases[1].hasFailure
    /\ "flaky" \notin DOMAIN Tests[1]

\* flaky errors alone make the test flaky
C23_WitnessFlaky ==
    /\ Reported
    /\ Len(testCases) = 1
    /\ ListLen(testCases[1], "flakyFailures") = 0
    /\ ListLen(testCases[1], "flakyErrors") > 0
    /\ Tests[1].flaky = TRUE

\* how many units of s are in set S
CountIn(s, S) == Cardinality({i \in 1..Len(s) : s[i] \in S})

OneAttemptPerRecord(t, recs, n) ==
    IF n = 0 THEN "retries" \notin DOMAIN t /\ "retryAttempts" \notin DOMAIN t
    ELSE /\ t.retries = n
         /\ Len(t.retryAttempts) = n
         /\ \A k \in 1..n :
               /\ t.retryAttempts[k].status = "failed"
               /\ t.retryAttempts[k].message = sanitizeString(recs[k].message)

\* C25: the retry count of a test is the number of records in its four
\* retry lists together (absent lists counting 0), whether or not the
\* attempt counter was reset to 2; each record yields exactly one attempt
\* and every attempt has status 'failed'.
C25_RetryCount ==
    Reported =>
        \A i \in 1..Len(testCases) :
            OneAttemptPerRecord(Tests[i], AllRecords(testCases[i]),
                                ListLen(testCases[i], "flakyFailures")
                                  + ListLen(testCases[i], "flakyErrors")
                                  + ListLen(testCases[i], "rerunFailures")
                                  + ListLen(testCases[i], "rerunErrors"))

\* rerun records only: the counter was reset to 2, the count is 3
C25_Witness ==
    /\ Reported
    /\ Len(testCases) = 1
    /\ ~FlakyIn(testCases[1])
    /\ ListLen(testCases[1], "rerunFailures") = 2
    /\ ListLen(testCases[1], "rerunErrors") = 1
    /\ Tests[1].retries = 3
    /\ Tests[1].retryAttempts[3].attempt = 4
    /\ Tests[1].retryAttempts[3].status = "failed"

\* C26: every test with flaky true has status 'passed' and retries >= 1, so
\* no failed or skipped test is flaky and summary.flaky, when present, is at
\* most summary.passed.
C26_FlakyPassed ==
    Reported =>
        /\ \A i \in 1..Len(Tests) :
              ("flaky" \in DOMAIN Tests[i] /\ Tests[i].flaky) =>
                  /\ Tests[i].status = "passed"
                  /\ "retries" \in DOMAIN Tests[i]
                  /\ Tests[i].retries >= 1
        /\ "flaky" \in DOMAIN Summary => Summary.flaky <= Summary.passed

\* a test case flagged failed and skipped, with flaky and rerun records, is
\* reported passed and flaky
C26_Witness ==
    /\ Reported
    /\ Len(testCases) = 1
    /\ testCases[1].hasFailure
    /\ testCases[1].skipped
    /\ FlakyIn(testCases[1])
    /\ RerunIn(testCases[1])
    /\ Tests[1].flaky = TRUE
    /\ Tests[1].status = "passed"
    /\ Summary.flaky = 1
    /\ Summary.passed = 1

\* the test that test case tc gives on its own
AloneTest(tc) == convertToCTRFTest(tc, ToBoolean(useSuiteName))

\* C27: createCTRFReport emits exactly one test per test case, in input
\* order; test i is what test case i gives on its own, whatever the other
\* test cases are, also when two test cases have the same suite and name.
C27_OneTestPerCase ==
    Reported =>
        /\ Len(Tests) = Len(testCases)
        /\ Summary.tests = Len(testCases)
        /\ \A i \in 1..Len(testCases) : Tests[i] = AloneTest(testCases[i])

\* two test cases of the same suite and name, the first failed and rerun,
\* the second flaky
C27_Witness ==
    /\ Reported
    /\ Len(testCases) = 2
    /\ testCases[1].name = testCases[2].name
    /\ testCases[1].suite = testCases[2].suite
    /\ testCases[1].hasFailure /\ RerunIn(testCases[1]) /\ ~FlakyIn(testCases[1])
    /\ FlakyIn(testCases[2])
    /\ Len(Tests) = 2
    /\ Tests[1].status = "failed"
    /\ Tests[2].status = "passed"
    /\ "flaky" \notin DOMAIN Tests[1]
    /\ Tests[2].flaky = TRUE

\* the calls of fs functions a call with an output path makes, in order
ExpectedCalls ==
    <<[fn |-> "ensureDir", path |-> dirname(resolve(outputPath))],
      [fn |-> "writeFile", path |-> resolve(outputPath),
       data |-> serializeCTRFReport(report)]>>

C28_WitnessNoPath ==
    /\ Converted
    /\ outputPath = <<>>
    /\ Len(testCases) = 1
    /\ outcome = Fulfilled(report)
    /\ fsCalls = <<>>

\* the position of the first '=' of a 'key=value' string
FirstEquals(prop) ==
    CHOOSE i \in 1..Len(prop) : prop[i] = 61 /\ \A j \in 1..(i-1) : prop[j] # 61

\* the mapping from the text before the first '=' to all the text after it;
\* a later string replaces an earlier one with the same key
RECURSIVE KeyValueMapping(_)
KeyValueMapping(props) ==
    IF props = <<>> THEN <<>>
    ELSE LET prop == props[Len(props)]
         IN  (SubSeq(prop, 1, FirstEquals(prop) - 1)
                 :> SubSeq(prop, FirstEquals(prop) + 1, Len(prop)))
                @@ KeyValueMapping(SubSeq(props, 1, Len(props) - 1))

\* every string of envProps has the form key=value
AllKeyValue(props) ==
    \A i \in 1..Len(props) : \E j \in 1..Len(props[i]) : props[i][j] = 61

\* the environment of a report, empty when the report has none
EnvironmentOf(r) ==
    IF "environment" \in DOMAIN r.results THEN r.results.environment ELSE <<>>

\* C29 as stated: the environment of the report convertJUnitToCTRFReport
\* assembles from 'key=value' strings maps the text before the first '=' of
\* each string to the entire text after it, further '=' included, and every
\* value is a string.
C29_Original ==
    (/\ call = "convertJUnitToCTRFReport"
     /\ report # NoReport
     /\ envStrings # Omitted
     /\ AllKeyValue(envStrings[1])) =>
        /\ EnvironmentOf(report) = KeyValueMapping(envStrings[1])
        /\ \A k \in DOMAIN EnvironmentOf(report) :
              EnvironmentOf(report)[k] # undefined

====
